---- MODULE Spec2Model ----
(***************************************************************************)
(* A model of the crawl session of src/main.py: the coroutine crawl (the   *)
(* frontier queue, the visited set, the robots check, the page fetch, the  *)
(* link extraction and the output file) and the exit of start_crawl.       *)
(*                                                                         *)
(* Strings are sequences of characters; a fixed fragment of several        *)
(* characters ("http", the JSON fragments) is one element of the sequence. *)
(* The answers of the network, of urlparse and of the file system are the  *)
(* inputs, drawn with \E in the step that asks for them.                   *)
(***************************************************************************)
EXTENDS Integers, Sequences, FiniteSets, TLC

(* ------------------------------ bounds -------------------------------- *)

\* Number of distinct paths below the seed: the URLs are the seed and one
\* URL per path.
NumPaths == 2

\* max_depth is drawn from 0..MaxDepthBound.
MaxDepthBound == 2

\* The queue is unbounded in the code; the pages drawn are those whose links
\* leave at most MaxQueue entries in it.
MaxQueue == 2

(* ------------------------- program constants -------------------------- *)

HTTP_OK == 200

HTTP_FORBIDDEN == 403

(* ------------------------------- strings ------------------------------ *)

\* The character that tells one path from another; the first three are the
\* characters the csv and json writers treat specially.
PathChars == <<",", "\"", "\\", "a", "b", "c">>

\* start_crawl: base_url = f"https://{domain}"
base_url == <<"http", "s">>

PathText(i) == <<"/", PathChars[i]>>

Paths == {PathText(i) : i \in 1..NumPaths}

\* Every URL string of the session: the seed and base_url + path.
Urls == {base_url} \cup {base_url \o p : p \in Paths}

\* The href attributes a page may carry: the seed as an absolute URL, a
\* path relative to it, or an empty href.
Hrefs == {base_url} \cup Paths \cup {<<>>}

Formats == {"json", "csv", "txt"}

(* ------------------------------ fetch_html ---------------------------- *)

\* The empty string fetch_html returns after an error.
EmptyHtml == [nonempty |-> FALSE, hrefs |-> {}]

\* A response text: whether it is a non-empty string, and the href
\* attributes of its <a> elements.
Texts == {EmptyHtml} \cup
         {[nonempty |-> TRUE, hrefs |-> h] :
             h \in SUBSET Hrefs}

\* What client.get answers for a page: a transport error (httpx.RequestError)
\* or a response with a status and a text.
FetchOutcomes ==
    {[kind |-> "RequestError", status |-> 0, text |-> EmptyHtml]} \cup
    {[kind |-> "response", status |-> HTTP_OK, text |-> t] : t \in Texts} \cup
    {[kind |-> "response", status |-> s,
      text |-> [nonempty |-> TRUE, hrefs |-> {base_url}]] :
         s \in {HTTP_FORBIDDEN, 500}}

\* response.raise_for_status(): the statuses that are not an error.
IsSuccess(status) == status >= 200 /\ status < 300

\* Mutant: raise_for_status is left out, the text of any response is
\* returned.
FetchHtmlAnyStatus(outcome) ==
    IF outcome.kind = "response"
    THEN [exc |-> "none", html |-> outcome.text]
    ELSE [exc |-> "none", html |-> EmptyHtml]

\* Mutant: the HTTPStatusError of a 403 is raised again.
FetchHtmlRaises(outcome) ==
    IF outcome.kind = "response" /\ IsSuccess(outcome.status)
    THEN [exc |-> "none", html |-> outcome.text]
    ELSE IF outcome.kind = "response" /\ outcome.status = HTTP_FORBIDDEN
    THEN [exc |-> "HTTPStatusError", html |-> EmptyHtml]
    ELSE [exc |-> "none", html |-> EmptyHtml]

\* fetch_html returns the text of a successful response and "" after an
\* HTTPStatusError (403 or another status) or a RequestError; it raises
\* nothing (exc = "none").
FetchHtml(outcome) ==
    IF outcome.kind = "response" /\ IsSuccess(outcome.status)
    THEN [exc |-> "none", html |-> outcome.text]
    ELSE [exc |-> "none", html |-> EmptyHtml]

(* ------------------------------ parse_links --------------------------- *)

\* href.startswith("http")
StartsWithHttp(href) == Len(href) > 0 /\ Head(href) = "http"

\* parse_links: an absolute href is taken as it is, another non-empty href
\* is appended to base, an empty href is skipped; the result is a set.
ParseLinks(html, base) ==
    {h \in html.hrefs : StartsWithHttp(h)} \cup
    {base \o h : h \in {g \in html.hrefs : g /= <<>> /\ ~StartsWithHttp(g)}}

\* The orders in which "for link in links" may enumerate the set.
Orders(S) ==
    {f \in [1..Cardinality(S) -> S] :
        \A i, j \in 1..Cardinality(S) : f[i] = f[j] => i = j}

(* ------------------------------ is_crawlable -------------------------- *)

\* What client.get answers for robots.txt: a transport error or a response
\* with a status; deny says whether the directives of its text refuse the
\* URL to agent "*" (RobotFileParser.can_fetch is False).
RobotsResponses ==
    {[kind |-> "RequestError", status |-> 0, deny |-> FALSE]} \cup
    {[kind |-> "response", status |-> s, deny |-> d] :
        s \in {HTTP_OK, 404}, d \in BOOLEAN}

NoResponse == [kind |-> "none", status |-> 0, deny |-> FALSE]

\* Mutant: fail-closed, any answer but a 200 refuses the URL.
IsCrawlableFailClosed(resp) ==
    IF resp.kind = "response" /\ resp.status = HTTP_OK
    THEN [exc |-> "none", value |-> ~resp.deny]
    ELSE [exc |-> "none", value |-> FALSE]

\* is_crawlable: the answer of can_fetch after a 200, True after any other
\* status and after a RequestError; it raises nothing.
IsCrawlable(resp) ==
    IF resp.kind = "response" /\ resp.status = HTTP_OK
    THEN [exc |-> "none", value |-> ~resp.deny]
    ELSE [exc |-> "none", value |-> TRUE]

(* ------------------------------- the sink ----------------------------- *)

OpenFragment == <<"{\"urls\": [">>

CloseFragment == <<"]}">>

RECURSIVE JsonEscape(_)
\* json.dumps of the characters of a string: a quote and a backslash are
\* escaped with a backslash.
JsonEscape(s) ==
    IF s = <<>> THEN <<>>
    ELSE (IF Head(s) \in {"\"", "\\"} THEN <<"\\", Head(s)>> ELSE <<Head(s)>>)
         \o JsonEscape(Tail(s))

\* json.dump({"url": url}, file)
JsonDump(u) == <<"{\"url\": ", "\"">> \o JsonEscape(u) \o <<"\"", "}">>

\* Mutant: every entry closes the document again.
JsonEntryClosing(u, first) ==
    (IF first = "True" THEN <<>> ELSE <<",">>) \o JsonDump(u) \o <<"\n">>
    \o <<"]}">>

\* Mutant: the separator is never written.
JsonEntryNoSeparator(u, first) == JsonDump(u) \o <<"\n">>

\* The json branch: a comma unless this is the first entry, the object, a
\* line feed.
JsonEntry(u, first) ==
    (IF first = "True" THEN <<>> ELSE <<",">>) \o JsonDump(u) \o <<"\n">>

RECURSIVE CsvDouble(_)
\* csv: a quote inside a quoted field is doubled.
CsvDouble(s) ==
    IF s = <<>> THEN <<>>
    ELSE (IF Head(s) = "\"" THEN <<"\"", "\"">> ELSE <<Head(s)>>)
         \o CsvDouble(Tail(s))

\* csv.writer (QUOTE_MINIMAL): a field holding the delimiter, the quote
\* character or a character of the line terminator is quoted.
CsvNeedsQuote(s) ==
    \E i \in 1..Len(s) : s[i] \in {",", "\"", "\r", "\n"}

\* Mutant: the field is written as it is, without quoting.
CsvRowUnquoted(u) == u \o <<"\r", "\n">>

\* writer.writerow([url]): the field and the line terminator "\r\n".
CsvRow(u) ==
    (IF CsvNeedsQuote(u) THEN <<"\"">> \o CsvDouble(u) \o <<"\"">> ELSE u)
    \o <<"\r", "\n">>

\* The txt branch: file.write(url + "\n")
TxtLine(u) == u \o <<"\n">>

\* What one iteration appends to the output file.
SinkEntry(fmt, u, first) ==
    IF fmt = "json" THEN JsonEntry(u, first)
    ELSE IF fmt = "csv" THEN CsvRow(u)
    ELSE TxtLine(u)

(* ------------------------------- crawl -------------------------------- *)

VARIABLES
    format,        \* the format argument
    max_depth,     \* the max_depth argument
    pc,            \* where crawl (then start_crawl) stands
    queue,         \* the asyncio.Queue of (url, depth)
    visited_urls,  \* the set visited_urls
    url,           \* the local url of crawl
    depth,         \* the local depth of crawl
    first_entry,   \* the local first_entry: "unbound", "True" or "False"
    file,          \* the content of the output file
    file_exists,   \* whether the output file was created
    robots_txt,    \* the last answer to a robots.txt request
    response,      \* the kind of the last answer to a page request
    links,         \* the local links of crawl: the set parse_links returned
    result,        \* what crawl returned or raised
    exit_code,     \* the exit status of the process, -1 while it runs
    message,       \* what start_crawl reports at the end
    \* history
    written,       \* the URLs appended to the file, in order
    netlog,        \* the requests issued, in order: <<kind, url>>
    verdict,       \* per URL: what is_crawlable answered
    accepted,      \* per URL: the depths at which it was accepted, in order
    fetched,       \* per URL: "none", or whether fetch_html got a text
    seen,          \* the URLs dequeued before the current turn of the loop
    first_time,    \* whether the current turn dequeued url for the first time
    error,         \* the exception that ended the session, or "none"
    inflight,      \* the requests issued and not yet answered: <<kind, url>>
    enqueued,      \* per URL: the least depth of the entries put on the
                   \* queue for it, -1 when there was none
    keep_graph,    \* whether the link graph of the session is recorded
    linksOf        \* per URL: the links parse_links found in its page

prog == <<format, max_depth, pc, queue, visited_urls, url, depth,
          first_entry, file, file_exists, robots_txt, response, links,
          result, exit_code, message>>

hist == <<written, netlog, verdict, accepted, fetched, seen, first_time,
          error, inflight, enqueued, keep_graph, linksOf>>

vars == <<prog, hist>>

NoUrl == <<>>

Range(s) == {s[i] : i \in 1..Len(s)}

\* The least number of S, -1 when S is empty.
Least(S) == IF S = {} THEN -1 ELSE CHOOSE x \in S : \A y \in S : x <= y

\* crawl, lines 134-136: the visited set is empty and the queue holds the
\* seed at depth 0; nothing was opened or requested.
Start ==
    /\ format \in Formats
    /\ max_depth \in 0..MaxDepthBound
    /\ pc = "open"
    /\ queue = <<[url |-> base_url, depth |-> 0]>>
    /\ visited_urls = {}
    /\ url = NoUrl
    /\ depth = 0
    /\ first_entry = "unbound"
    /\ file = <<>>
    /\ file_exists = FALSE
    /\ robots_txt = NoResponse
    /\ response = "none"
    /\ links = {}
    /\ result = "running"
    /\ exit_code = -1
    /\ message = "none"
    /\ written = <<>>
    /\ netlog = <<>>
    /\ verdict = [u \in Urls |-> "none"]
    /\ accepted = [u \in Urls |-> <<>>]
    /\ fetched = [u \in Urls |-> "none"]
    /\ seen = {}
    /\ first_time = FALSE
    /\ error = "none"
    /\ inflight = {}
    /\ linksOf = [u \in Urls |-> {}]
    /\ enqueued = [u \in Urls |-> IF u = base_url THEN 0 ELSE -1]

\* The sessions whose link graph is not recorded.
Init == Start /\ keep_graph = FALSE

\* The sessions whose link graph is recorded in linksOf; they write the
\* txt format, the format having no part in what is visited and written.
InitGraph == Start /\ keep_graph = TRUE /\ format = "txt"

\* The except clause of crawl names these exceptions.
Caught(exc) == exc \in {"HTTPStatusError", "RequestError", "ValueError"}

\* An exception raised inside the try block: crawl returns None when the
\* except clause names it, and it leaves crawl otherwise.
Raise(exc) ==
    /\ error' = exc
    /\ IF Caught(exc)
       THEN pc' = "failed" /\ result' = "None"
       ELSE pc' = "crashed" /\ result' = "exception"

\* with open(output_file_path, "w"): the file is created empty, and the
\* json format writes the opening fragment and binds first_entry.
OpenSink ==
    /\ pc = "open"
    /\ \E ok \in BOOLEAN :
        IF ok
        THEN /\ file_exists' = TRUE
             /\ file' = IF format = "json" THEN OpenFragment ELSE <<>>
             /\ first_entry' = IF format = "json" THEN "True" ELSE first_entry
             /\ pc' = "loop"
             /\ UNCHANGED <<result, error>>
        ELSE /\ Raise("OSError")
             /\ UNCHANGED <<file_exists, file, first_entry>>
    /\ UNCHANGED <<format, max_depth, queue, visited_urls, url, depth,
                   robots_txt, response, links, exit_code, message, written,
                   netlog, verdict, accepted, fetched, seen, first_time,
                   inflight, enqueued, keep_graph, linksOf>>

\* Mutant: neither test is made.
DiscardNever(u, d) == FALSE

\* Mutant: the depth test discards the last depth too.
DiscardDepthEarly(u, d) == u \in visited_urls \/ d + 1 >= max_depth

\* Mutant: the visited test is left out.
DiscardDepthOnly(u, d) == d >= max_depth

\* Mutant: the depth test is off by one.
DiscardDepthOffByOne(u, d) == u \in visited_urls \/ d > max_depth

\* if url in visited_urls or depth >= max_depth: continue
Discard(u, d) == u \in visited_urls \/ d >= max_depth

\* Mutant: the URL is not added.
MarkVisitedNot(v, u) == v

\* visited_urls.add(url)
MarkVisited(v, u) == v \cup {u}

\* One turn of "while not queue.empty()" up to the call of is_crawlable: the head
\* is dequeued; it is discarded, or it is marked visited and its robots URL
\* is built with urlparse, which raises ValueError for a malformed URL.
Dequeue ==
    /\ pc = "loop"
    /\ queue /= <<>>
    /\ LET e == Head(queue) IN
        /\ url' = e.url
        /\ depth' = e.depth
        /\ queue' = Tail(queue)
        /\ seen' = seen \cup {e.url}
        /\ first_time' = (e.url \notin seen)
        /\ robots_txt' = NoResponse
        /\ response' = "none"
        /\ links' = {}
        /\ IF Discard(e.url, e.depth)
           THEN /\ pc' = "loop"
                /\ UNCHANGED <<visited_urls, accepted, result, error>>
           ELSE /\ visited_urls' = MarkVisited(visited_urls, e.url)
                /\ accepted' = [accepted EXCEPT ![e.url] = Append(@, e.depth)]
                /\ \E parsed \in {"ok", "ValueError"} :
                    IF parsed = "ok"
                    THEN pc' = "crawlable" /\ UNCHANGED <<result, error>>
                    ELSE Raise("ValueError")
    /\ UNCHANGED <<format, max_depth, first_entry, file, file_exists,
                   exit_code, message, written, netlog, verdict, fetched,
                   inflight, enqueued, keep_graph, linksOf>>

\* Mutant: the answer of is_crawlable is ignored.
SkipsNever(crawlable) == FALSE

\* "if not await is_crawlable(...)": whether the loop continues with the
\* next entry, leaving out the fetch and the write.
Skips(crawlable) == ~crawlable

\* Mutant: the coroutine goes on while the request is still in flight.
AwaitedNot(fl, req) == fl

\* "await client.get(...)": the coroutine goes on when the request was
\* answered or failed, so the request is in flight no longer.
Awaited(fl, req) == fl \ {req}

\* is_crawlable is called and issues the request for robots.txt; the
\* coroutine is suspended until the answer.
RobotsRequest ==
    /\ pc = "crawlable"
    /\ pc' = "robots"
    /\ inflight' = inflight \cup {<<"robots", url>>}
    /\ netlog' = Append(netlog, <<"robots", url>>)
    /\ UNCHANGED <<format, max_depth, queue, visited_urls, url, depth,
                   first_entry, file, file_exists, robots_txt, response,
                   links, result, exit_code, message, written, verdict,
                   accepted, fetched, seen, first_time, error, enqueued,
                   keep_graph, linksOf>>

\* if not await is_crawlable(url, robots_txt_url, client): continue
\* The request for robots.txt is answered or fails; an allowed URL goes on
\* to fetch_html, which sleeps for the delay first.
Robots ==
    /\ pc = "robots"
    /\ inflight' = Awaited(inflight, <<"robots", url>>)
    /\ \E resp \in RobotsResponses :
        LET r == IsCrawlable(resp) IN
        /\ robots_txt' = resp
        /\ IF r.exc /= "none"
           THEN Raise(r.exc) /\ UNCHANGED verdict
           ELSE /\ verdict' = [verdict EXCEPT
                                 ![url] = IF r.value THEN "allowed" ELSE "denied"]
                /\ pc' = IF Skips(r.value) THEN "loop" ELSE "sleep"
                /\ UNCHANGED <<result, error>>
    /\ UNCHANGED <<format, max_depth, queue, visited_urls, url, depth,
                   first_entry, file, file_exists, response, links,
                   exit_code, message, written, netlog, accepted, fetched,
                   seen, first_time, enqueued, keep_graph, linksOf>>

\* What the history keeps of a page fetch.
FetchKind(outcome) ==
    IF outcome.kind = "RequestError" THEN "RequestError"
    ELSE IF outcome.status = HTTP_FORBIDDEN THEN "denied"
    ELSE IF ~IsSuccess(outcome.status) THEN "status"
    ELSE IF outcome.text.nonempty THEN "content"
    ELSE "empty"

\* Mutant: only the first link is put on the queue.
EnqueueFirstOnly(q, order, d) ==
    IF order = <<>> THEN q ELSE Append(q, [url |-> order[1], depth |-> d])

\* Mutant: the links are put at the head of the queue.
EnqueueFront(q, order, d) ==
    [i \in 1..Len(order) |-> [url |-> order[i], depth |-> d]] \o q

\* Mutant: the links already in the visited set are left out.
EnqueueUnvisited(q, order, d) ==
    q \o [i \in 1..Len(SelectSeq(order, LAMBDA l : l \notin visited_urls)) |->
            [url |-> SelectSeq(order, LAMBDA l : l \notin visited_urls)[i],
             depth |-> d]]

\* for link in links: await queue.put((link, depth + 1))
Enqueue(q, order, d) ==
    q \o [i \in 1..Len(order) |-> [url |-> order[i], depth |-> d]]

\* fetch_html after the sleep: the request for the page is issued and the
\* coroutine is suspended until the answer.
FetchRequest ==
    /\ pc = "sleep"
    /\ pc' = "fetch"
    /\ inflight' = inflight \cup {<<"page", url>>}
    /\ netlog' = Append(netlog, <<"page", url>>)
    /\ robots_txt' = NoResponse
    /\ UNCHANGED <<format, max_depth, queue, visited_urls, url, depth,
                   first_entry, file, file_exists, response, links, result,
                   exit_code, message, written, verdict, accepted, fetched,
                   seen, first_time, error, enqueued, keep_graph, linksOf>>

\* html = await fetch_html(...); if html: every parsed link is put on the
\* queue at depth + 1, in the order the set enumerates them.
Fetch ==
    /\ pc = "fetch"
    /\ inflight' = Awaited(inflight, <<"page", url>>)
    /\ \E outcome \in FetchOutcomes :
        LET r == FetchHtml(outcome)
            parsed == IF r.html.nonempty THEN ParseLinks(r.html, base_url)
                      ELSE {}
        IN
        /\ response' = FetchKind(outcome)
        /\ fetched' = [fetched EXCEPT ![url] =
                          IF FetchKind(outcome) \in {"content", "empty"}
                          THEN "ok" ELSE "failed"]
        /\ IF r.exc /= "none"
           THEN Raise(r.exc) /\ UNCHANGED <<queue, links, linksOf>>
           ELSE /\ Len(queue) + Cardinality(parsed) <= MaxQueue
                /\ links' = parsed
                /\ linksOf' = IF keep_graph
                              THEN [linksOf EXCEPT ![url] = parsed]
                              ELSE linksOf
                /\ \E order \in Orders(parsed) :
                    queue' = Enqueue(queue, order, depth + 1)
                /\ pc' = "write"
                /\ UNCHANGED <<result, error>>
    /\ enqueued' = [u \in Urls |->
                        Least(({e.depth : e \in {x \in Range(queue') : x.url = u}}
                               \cup {enqueued[u]}) \ {-1})]
    /\ UNCHANGED <<format, max_depth, visited_urls, url, depth, first_entry,
                   file, file_exists, robots_txt, exit_code, message,
                   written, netlog, verdict, accepted, seen, first_time,
                   keep_graph>>

\* The url is appended to the output file in the chosen format; opening or
\* writing the file may raise OSError.
Write ==
    /\ pc = "write"
    /\ \E ok \in BOOLEAN :
        IF ok
        THEN /\ file' = file \o SinkEntry(format, url, first_entry)
             /\ first_entry' = IF format = "json" THEN "False" ELSE first_entry
             /\ written' = Append(written, url)
             /\ pc' = "loop"
             /\ UNCHANGED <<result, error>>
        ELSE /\ Raise("OSError")
             /\ UNCHANGED <<file, first_entry, written>>
    /\ UNCHANGED <<format, max_depth, queue, visited_urls, url, depth,
                   file_exists, robots_txt, response, links, exit_code,
                   message, netlog, verdict, accepted, fetched, seen,
                   first_time, inflight, enqueued, keep_graph, linksOf>>

\* The queue is empty: the json format appends the closing fragment, and
\* crawl returns the output filename.
Finish ==
    /\ pc = "loop"
    /\ queue = <<>>
    /\ \E ok \in BOOLEAN :
        IF format = "json" /\ ~ok
        THEN Raise("OSError") /\ UNCHANGED file
        ELSE /\ file' = IF format = "json" THEN file \o CloseFragment ELSE file
             /\ pc' = "done"
             /\ result' = "filename"
             /\ UNCHANGED error
    /\ UNCHANGED <<format, max_depth, queue, visited_urls, url, depth,
                   first_entry, file_exists, robots_txt, response, links,
                   exit_code, message, written, netlog, verdict, accepted,
                   fetched, seen, first_time, inflight, enqueued, keep_graph, linksOf>>

\* Mutant: typer.Exit(1) is left out.
ExitCodeZero(res) == 0

\* start_crawl: 0 after a filename, typer.Exit(1) after None.
ExitCode(res) == IF res = "filename" THEN 0 ELSE 1

\* start_crawl after asyncio.run(crawl(...)): it reports the file, or
\* reports the failure and exits with 1; an exception that left crawl
\* leaves start_crawl too and ends the process with a traceback.
StartCrawlExit ==
    /\ pc \in {"done", "failed", "crashed"}
    /\ pc' = "exit"
    /\ exit_code' = ExitCode(result)
    /\ message' = IF result = "filename" THEN "Crawling completed"
                  ELSE IF result = "None" THEN "Crawling failed"
                  ELSE "Traceback"
    /\ UNCHANGED <<format, max_depth, queue, visited_urls, url, depth,
                   first_entry, file, file_exists, robots_txt, response,
                   links, result, hist>>

Next ==
    \/ OpenSink
    \/ Dequeue
    \/ RobotsRequest
    \/ Robots
    \/ FetchRequest
    \/ Fetch
    \/ Write
    \/ Finish
    \/ StartCrawlExit

Spec == Init /\ [][Next]_vars

\* The same program, with the link graph of the session recorded.
GraphSpec == InitGraph /\ [][Next]_vars

(* ------------------------------ properties ---------------------------- *)

Count(s, x) == Cardinality({i \in 1..Len(s) : s[i] = x})

\* The URLs of the requests of one kind, "robots" or "page".
Requested(kind) == {e[2] : e \in {x \in Range(netlog) : x[1] = kind}}

\* crawl returned the output filename: the queue drained.
Completed == result = "filename"

Seed == base_url

(* C1 *)

C1_Once ==
    \A u \in Urls : Len(accepted[u]) <= 1 /\ Count(written, u) <= 1

C1_WriteStep ==
    written' /= written =>
        /\ written' = Append(written, url)
        /\ first_time
        /\ url \notin Range(written)

\* C1: every URL is accepted into the visited set at most once and is
\* appended to the sink at most once, however often it is enqueued; a step
\* that writes, writes the URL of the current turn of the loop, and that
\* turn dequeued the URL for the first time.
C1_NoDuplicateVisits == [](C1_Once) /\ [][C1_WriteStep]_vars

\* A URL that was accepted and written at one depth was dequeued again at
\* another depth below max_depth, and discarded.
C1_Witness ==
    /\ pc = "loop"
    /\ ~first_time
    /\ url \in Range(written)
    /\ accepted[url] /= <<>>
    /\ depth /= accepted[url][1]
    /\ depth < max_depth

(* C2 *)

C2_Accepted ==
    /\ \A u \in Urls : \A i \in 1..Len(accepted[u]) :
            accepted[u][i] < max_depth
    /\ visited_urls = {u \in Urls : accepted[u] /= <<>>}
    /\ Requested("robots") \subseteq visited_urls
    /\ Requested("page") \subseteq visited_urls
    /\ Range(written) \subseteq visited_urls

C2_DiscardStep ==
    (pc = "loop" /\ queue /= <<>> /\ Head(queue).depth >= max_depth) =>
        /\ pc' = "loop"
        /\ UNCHANGED <<visited_urls, netlog, written, file, accepted>>

\* C2 as claimed: the depth bound, and with max_depth = 1 a completed
\* session has processed only the seed and its output holds exactly one
\* URL.
C2_AsClaimed ==
    /\ C2_Accepted
    /\ (max_depth = 1 /\ Completed) =>
            (visited_urls = {Seed} /\ Len(written) = 1)

\* C2, amended: every URL that is accepted, robots-checked, fetched or
\* written was dequeued at a depth below max_depth; an entry at a depth of
\* max_depth or more is discarded without a request, an insertion or a
\* write; with max_depth = 1 a completed session has processed only the
\* seed, and its output holds the seed alone when robots allows the seed
\* and nothing when robots disallows it.
C2_DepthBound ==
    /\ [](C2_Accepted)
    /\ []((max_depth = 1 /\ Completed) =>
            /\ visited_urls = {Seed}
            /\ written = IF verdict[Seed] = "allowed" THEN <<Seed>> ELSE <<>>)
    /\ [][C2_DiscardStep]_vars

\* With max_depth = 1 the seed was written, and a link of its page was
\* dequeued at depth 1 and discarded; the session completed.
C2_Witness ==
    /\ max_depth = 1
    /\ Completed
    /\ written = <<Seed>>
    /\ url /= Seed
    /\ url \notin visited_urls
    /\ depth = 1

(* C3 *)

\* C3: every URL written to the sink is in the visited set, and no step
\* removes a URL from the visited set.
C3_SinkWithinVisited ==
    /\ [](Range(written) \subseteq visited_urls)
    /\ [][visited_urls \subseteq visited_urls']_vars

\* Two URLs were written and a third was visited and not written.
C3_Witness ==
    /\ Len(written) = 2
    /\ Cardinality(visited_urls) = 3

(* C4 *)

C4_Verdicts ==
    /\ \A u \in Urls : verdict[u] = "denied" =>
            (u \in visited_urls /\ u \notin Requested("page"))
    /\ \A u \in Urls : verdict[u] = "allowed" =>
            (u \in Requested("page") \/ (pc = "sleep" /\ url = u))
    /\ pc \in {"sleep", "fetch"} => verdict[url] = "allowed"

\* The entries of q from position n + 1 on.
Added(q, n) == {q[i] : i \in (n + 1)..Len(q)}

C4_Steps ==
    \* only the fetch step of an allowed URL puts entries on the queue
    /\ pc /= "fetch" =>
            (queue' = queue \/ (queue /= <<>> /\ queue' = Tail(queue)))
    \* a refusal leaves the queue as it is and the loop goes on
    /\ (pc = "robots" /\ verdict'[url] = "denied") =>
            (pc' = "loop" /\ queue' = queue /\ result' = "running")
    \* the links of a fetched page are put at the tail, at depth + 1
    /\ (pc = "fetch" /\ response' = "content") =>
            /\ pc' = "write"
            /\ Len(queue') = Len(queue) + Cardinality(links')
            /\ SubSeq(queue', 1, Len(queue)) = queue
            /\ Added(queue', Len(queue)) =
                  {[url |-> l, depth |-> depth + 1] : l \in links'}

\* C4: a URL that robots disallows is in the visited set, is never
\* page-fetched and puts no entry on the queue; a URL that robots allows is
\* page-fetched and the links of its page are enqueued at depth + 1; after
\* a refusal the loop goes on with the queue unchanged.
C4_RobotsDisallow == [](C4_Verdicts) /\ [][C4_Steps]_vars

\* At depth 1 one URL was refused by robots, and after it its sibling was
\* fetched and the links of its page were enqueued.
C4_Witness ==
    /\ pc = "write"
    /\ depth = 1
    /\ response = "content"
    /\ links /= {}
    /\ \E u \in Urls : verdict[u] = "denied" /\ accepted[u] = <<1>>

(* C5 *)

\* The last robots.txt request failed: a transport error, or a status other
\* than 200.
RobotsFailed(resp) ==
    \/ resp.kind = "RequestError"
    \/ (resp.kind = "response" /\ resp.status /= 200)

\* An allowed URL is page-fetched and written in its turn of the loop; only
\* an error of the sink keeps the write from happening.
AllowedProcessed ==
    \A u \in Urls : verdict[u] = "allowed" =>
        \/ (pc = "sleep" /\ url = u)
        \/ /\ u \in Requested("page")
           /\ \/ (pc \in {"fetch", "write"} /\ url = u)
              \/ u \in Range(written)
              \/ (error = "OSError" /\ url = u)

\* C5: after a robots.txt request that fails or answers a status other
\* than 200, is_crawlable answers allowed and the loop goes on to the page
\* fetch; a URL is refused only after a 200 whose directives deny it; an
\* allowed URL is page-fetched and written.
C5_FailOpen ==
    /\ RobotsFailed(robots_txt) => (pc = "sleep" /\ verdict[url] = "allowed")
    /\ robots_txt.kind /= "none" =>
            /\ verdict[url] \in {"allowed", "denied"}
            /\ verdict[url] = "denied" <=>
                  (robots_txt.kind = "response" /\ robots_txt.status = 200
                      /\ robots_txt.deny)
            /\ verdict[url] = "allowed" <=> pc = "sleep"
    /\ AllowedProcessed

\* robots.txt answered 404 with directives that deny the URL, and the URL
\* goes on to the page fetch.
C5_Witness ==
    /\ pc = "sleep"
    /\ robots_txt.kind = "response"
    /\ robots_txt.status = 404
    /\ robots_txt.deny

(* C6 *)

FailedKinds == {"denied", "status", "RequestError"}

C6_Failed ==
    /\ error \notin {"HTTPStatusError", "RequestError"}
    /\ response \in FailedKinds => (links = {} /\ fetched[url] = "failed")
    /\ \A u \in Urls : Count(netlog, <<"page", u>>) <= 1
    /\ \A u \in Urls : fetched[u] = "failed" =>
            /\ u \in visited_urls
            /\ Count(written, u) <= 1
            /\ \/ Count(written, u) = 1
               \/ (url = u /\ (pc = "write" \/ error = "OSError"))
    /\ (Completed /\ fetched[Seed] = "failed") =>
            (written = <<Seed>> /\ queue = <<>> /\ visited_urls = {Seed})

C6_FetchStep ==
    (pc = "fetch" /\ response' \in FailedKinds) =>
        (pc' = "write" /\ queue' = queue /\ result' = "running")

Ended == pc \in {"done", "failed", "crashed", "exit"}

\* C7: failures met while a URL is processed are not fatal: after a failed
\* page fetch, whenever the sink works, the session ends by returning the
\* output filename, with every entry of the queue dequeued.
C7_AsClaimed ==
    (Ended /\ error /= "OSError" /\ \E u \in Urls : fetched[u] = "failed")
        => (Completed /\ queue = <<>>)

C7_Ends ==
    /\ error \in {"none", "OSError", "ValueError"}
    /\ (Ended /\ error = "none") => (Completed /\ queue = <<>>)
    /\ (pc = "exit" /\ error = "none") => exit_code = 0
    /\ ~Ended => ENABLED Next

C7_FailureStep ==
    /\ (pc = "robots" /\ RobotsFailed(robots_txt')) =>
            (pc' = "sleep" /\ queue' = queue /\ result' = "running")
    /\ (pc = "fetch" /\ response' \in FailedKinds) =>
            (pc' = "write" /\ queue' = queue /\ result' = "running")

\* The part of C7 that holds: the step that meets a failed robots request
\* or a failed page fetch leaves the queue as it is and the loop goes on;
\* the session ends by returning the output filename, with the queue empty
\* and exit status 0, unless the sink fails (OSError) or urlparse refuses
\* an accepted URL (ValueError, which ends crawl with None).
C7_FailuresNotFatal == [](C7_Ends) /\ [][C7_FailureStep]_vars

\* A page fetch failed, a URL was written after it, and the process ended
\* with status 0.
C7_Witness ==
    /\ exit_code = 0
    /\ \E i \in 1..(Len(written) - 1) : fetched[written[i]] = "failed"

(* C8 *)

C8_Failed ==
    error = "OSError" =>
        /\ pc \in {"crashed", "exit"}
        /\ ~Completed
        /\ pc = "exit" => (exit_code = 1 /\ message /= "none")

C8_Stopped ==
    (error = "OSError" \/ error' = "OSError") =>
        UNCHANGED <<queue, visited_urls, netlog, written, file>>

\* C8: after an error of the sink (the file cannot be opened or appended
\* to) nothing more is dequeued, requested or written, crawl returns no
\* filename, and the process ends with status 1 and a message.
C8_SinkErrorFatal == [](C8_Failed) /\ [][C8_Stopped]_vars

\* A write failed after one URL was written, with entries left in the
\* queue, and the process ended with status 1.
C8_Witness ==
    /\ pc = "exit"
    /\ error = "OSError"
    /\ exit_code = 1
    /\ written /= <<>>
    /\ queue /= <<>>

(* C9 *)

RECURSIVE SplitLines(_, _, _)
\* A reader of the txt file: the lines ended by a line feed, and whether
\* the file ends with the end of a line.
SplitLines(f, cur, acc) ==
    IF f = <<>> THEN [complete |-> cur = <<>>, records |-> acc]
    ELSE IF Head(f) = "\n" THEN SplitLines(Tail(f), <<>>, Append(acc, cur))
    ELSE SplitLines(Tail(f), Append(cur, Head(f)), acc)

RECURSIVE CsvRead(_, _, _, _, _)
\* A reader of the csv file, as csv.reader reads it: st is where the reader
\* stands ("row": before a row, "field": before a field, "plain": in an
\* unquoted field, "quoted": in a quoted field, "quote": after a quote in a
\* quoted field, "cr": after a carriage return that ended a row), cur the
\* field and row the row under way, acc the rows read.
CsvRead(f, st, cur, row, acc) ==
    IF f = <<>>
    THEN [complete |-> st \in {"row", "cr"}, records |-> acc]
    ELSE LET c == Head(f)
             r == Tail(f)
         IN
         IF st = "cr" /\ c = "\n" THEN CsvRead(r, "row", <<>>, <<>>, acc)
         ELSE IF st = "quoted"
         THEN IF c = "\"" THEN CsvRead(r, "quote", cur, row, acc)
              ELSE CsvRead(r, "quoted", Append(cur, c), row, acc)
         ELSE IF st = "quote" /\ c = "\""
         THEN CsvRead(r, "quoted", Append(cur, c), row, acc)
         ELSE IF c = "," THEN CsvRead(r, "field", <<>>, Append(row, cur), acc)
         ELSE IF c = "\r"
         THEN CsvRead(r, "cr", <<>>, <<>>, Append(acc, Append(row, cur)))
         ELSE IF c = "\n"
         THEN CsvRead(r, "row", <<>>, <<>>, Append(acc, Append(row, cur)))
         ELSE IF c = "\"" /\ st \in {"row", "cr", "field"}
         THEN CsvRead(r, "quoted", <<>>, row, acc)
         ELSE CsvRead(r, "plain", Append(cur, c), row, acc)

\* The URLs a reader of the format finds in the file.
ReadBack(fmt, f) ==
    IF fmt = "csv"
    THEN LET p == CsvRead(f, "row", <<>>, <<>>, <<>>) IN
         [complete |-> p.complete /\ \A i \in 1..Len(p.records) :
                                        Len(p.records[i]) = 1,
          records |-> [i \in 1..Len(p.records) |-> p.records[i][1]]]
    ELSE SplitLines(f, <<>>, <<>>)

C9_Records ==
    format \in {"txt", "csv"} =>
        /\ ~file_exists => (file = <<>> /\ written = <<>>)
        /\ written = <<>> => file = <<>>
        /\ ReadBack(format, file).complete
        /\ ReadBack(format, file).records = written

C9_Appends ==
    format \in {"txt", "csv"} =>
        (Len(file') >= Len(file) /\ SubSeq(file', 1, Len(file)) = file)

\* C9: with the txt and the csv format, in every state the output file
\* reads back as complete records, one per written URL, equal to the
\* written URLs in the order of writing; the file is empty before the first
\* write, and every step leaves the file a prefix of the next file.
C9_AppendSafe == [](C9_Records) /\ [][C9_Appends]_vars

\* A csv session stopped by an error of the sink after two writes, the
\* second of a URL that csv quotes.
C9_Witness ==
    /\ format = "csv"
    /\ pc = "crashed"
    /\ Len(written) = 2
    /\ CsvNeedsQuote(written[2])

(* C10 *)

RECURSIVE JsonRecords(_, _)
\* The records of a json document from the i-th URL on: the object and a
\* line feed for each, a comma before each but the first.
JsonRecords(w, i) ==
    IF i > Len(w) THEN <<>>
    ELSE (IF i > 1 THEN <<",">> ELSE <<>>) \o JsonDump(w[i]) \o <<"\n">>
         \o JsonRecords(w, i + 1)

\* C10: with the json format, the file of a completed session is the
\* opening fragment, the records of the written URLs with a comma before
\* each but the first, and the closing fragment; each fragment occurs once.
C10_JsonFraming ==
    (format = "json" /\ Completed) =>
        /\ file = OpenFragment \o JsonRecords(written, 1) \o CloseFragment
        /\ Count(file, OpenFragment[1]) = 1
        /\ Count(file, CloseFragment[1]) = 1

\* A completed json session with two written URLs and a URL that robots
\* refused.
C10_Witness ==
    /\ format = "json"
    /\ Completed
    /\ Len(written) = 2
    /\ \E u \in Urls : verdict[u] = "denied"

(* C11 *)

RECURSIVE JsonRead(_, _, _, _)
\* A reader of the json file: st is where the reader stands ("start":
\* before the document, "first": after the opening fragment, "next": after
\* a comma, "key": after the key of an object, "string": in the string,
\* "escape": after a backslash in the string, "value": after the string,
\* "object": after an object, "end": after the closing fragment); cur is
\* the string under way and acc the strings read. The document is well
\* formed when the reader ends in "end".
JsonRead(f, st, cur, acc) ==
    IF f = <<>> THEN [wellformed |-> st = "end", urls |-> acc]
    ELSE LET c == Head(f)
             r == Tail(f)
             bad == [wellformed |-> FALSE, urls |-> acc]
         IN
         IF st = "string"
         THEN IF c = "\\" THEN JsonRead(r, "escape", cur, acc)
              ELSE IF c = "\"" THEN JsonRead(r, "value", <<>>, Append(acc, cur))
              ELSE IF c \in {"\n", "\r"} THEN bad
              ELSE JsonRead(r, "string", Append(cur, c), acc)
         ELSE IF st = "escape"
         THEN IF c \in {"\"", "\\"}
              THEN JsonRead(r, "string", Append(cur, c), acc)
              ELSE bad
         ELSE IF c = "\n" THEN JsonRead(r, st, cur, acc)
         ELSE IF st = "start"
         THEN IF c = "{\"urls\": [" THEN JsonRead(r, "first", cur, acc)
              ELSE bad
         ELSE IF st \in {"first", "next"} /\ c = "{\"url\": "
         THEN JsonRead(r, "key", cur, acc)
         ELSE IF st = "key" /\ c = "\"" THEN JsonRead(r, "string", <<>>, acc)
         ELSE IF st = "value" /\ c = "}" THEN JsonRead(r, "object", cur, acc)
         ELSE IF st = "object" /\ c = "," THEN JsonRead(r, "next", cur, acc)
         ELSE IF st \in {"first", "object"} /\ c = "]}"
         THEN JsonRead(r, "end", cur, acc)
         ELSE bad

WellFormedJson(f) == JsonRead(f, "start", <<>>, <<>>).wellformed

\* C11: with the json format, the file of a completed session is a well
\* formed document holding the written URLs; in every other state of a
\* session whose file was created (the loop has not ended, or the session
\* ended with an error) the file begins with the opening fragment, holds no
\* closing fragment and is not a well formed document.
C11_JsonClosure ==
    (format = "json" /\ file_exists) =>
        /\ Completed =>
              /\ WellFormedJson(file)
              /\ JsonRead(file, "start", <<>>, <<>>).urls = written
        /\ ~Completed =>
              /\ Head(file) = OpenFragment[1]
              /\ Count(file, CloseFragment[1]) = 0
              /\ ~WellFormedJson(file)

\* A json session that wrote two URLs and then ended with an error: the
\* file is left without the closing fragment.
C11_Witness ==
    /\ format = "json"
    /\ pc = "exit"
    /\ error /= "none"
    /\ Len(written) = 2

(* C12 *)

RECURSIVE Work(_)
\* A bound on the steps that an entry of depth d can cause: one step when
\* the depth test discards it, and otherwise the six steps of its turn of
\* the loop and the work of the entries its page puts on the queue, of
\* which there is at most one for each URL.
Work(d) ==
    IF d >= max_depth THEN 1 ELSE 6 + Cardinality(Urls) * Work(d + 1)

RECURSIVE WorkOf(_)
WorkOf(q) == IF q = <<>> THEN 0 ELSE Work(Head(q).depth) + WorkOf(Tail(q))

\* A bound on the steps left in the session: those of the current turn of
\* the loop, those of the entries on the queue, and those that end crawl
\* and start_crawl.
Remaining ==
    WorkOf(queue)
    + (IF pc = "crawlable" THEN 5 + Cardinality(Urls) * Work(depth + 1)
       ELSE IF pc = "robots" THEN 4 + Cardinality(Urls) * Work(depth + 1)
       ELSE IF pc = "sleep" THEN 3 + Cardinality(Urls) * Work(depth + 1)
       ELSE IF pc = "fetch" THEN 2 + Cardinality(Urls) * Work(depth + 1)
       ELSE IF pc = "write" THEN 1
       ELSE 0)
    + (IF pc = "open" THEN 3
       ELSE IF pc = "exit" THEN 0
       ELSE IF pc \in {"done", "failed", "crashed"} THEN 1
       ELSE 2)

C12_Progress ==
    /\ Remaining \in Nat
    /\ pc /= "exit" => ENABLED Next
    /\ pc = "exit" =>
            \/ (Completed /\ queue = <<>> /\ exit_code = 0)
            \/ (error /= "none" /\ exit_code = 1)

\* C12: the session cannot go on forever: every step, the answer to a
\* request included, lowers a bound on the steps that are left, which is a
\* natural number; a session that has not ended can take a step; and a
\* session ends with the queue empty and the output filename returned, or
\* with an error. So when every request returns, the session ends,
\* whatever cycles the links form.
C12_Terminates == [](C12_Progress) /\ [][Remaining' < Remaining]_vars

\* A session ended by draining the queue although a page linked back to
\* the seed: the last entry dequeued was the seed again.
C12_Witness ==
    /\ pc = "exit"
    /\ Completed
    /\ url = Seed
    /\ ~first_time
    /\ Len(written) >= 2

(* C13 *)

C13_InFlight ==
    /\ Cardinality(inflight) <= 1
    /\ pc = "robots" <=> inflight = {<<"robots", url>>}
    /\ pc = "fetch" <=> inflight = {<<"page", url>>}
    /\ pc \notin {"robots", "fetch"} <=> inflight = {}

C13_Steps ==
    \* a request is issued when no other is in flight
    /\ netlog' /= netlog =>
            /\ inflight = {}
            /\ netlog' = Append(netlog, netlog'[Len(netlog')])
            /\ inflight' = {netlog'[Len(netlog')]}
    \* an entry is dequeued when no request is in flight
    /\ (queue /= <<>> /\ queue' = Tail(queue)) => inflight = {}
    \* while a request is in flight the only step is its answer, which
    \* leaves the visited set and the file as they are and at most appends
    \* to the queue
    /\ inflight /= {} =>
            /\ inflight' = {}
            /\ visited_urls' = visited_urls
            /\ file' = file
            /\ SubSeq(queue', 1, Len(queue)) = queue
    \* the queue, the visited set and the file change one at a time
    /\ Cardinality({i \in 1..3 :
            <<queue', visited_urls', file'>>[i] /= <<queue, visited_urls, file>>[i]})
         <= (IF queue /= <<>> /\ queue' = Tail(queue) THEN 2 ELSE 1)

\* C13: at most one request is in flight in every state; a request is
\* issued only when none is in flight, so the robots request and the page
\* fetch of a URL never overlap and no two page fetches overlap; the
\* request of an entry is answered or fails before the next entry is
\* dequeued; and the steps of the one loop are the only ones that change
\* the queue, the visited set and the file.
C13_OneRequest == [](C13_InFlight) /\ [][C13_Steps]_vars

\* The page request of the third URL is in flight while an entry waits on
\* the queue.
C13_Witness ==
    /\ pc = "fetch"
    /\ inflight = {<<"page", url>>}
    /\ Cardinality(Requested("page")) = 3
    /\ queue /= <<>>

(* C14 *)

C14_Requests ==
    \* the requests come in pairs: the page request of a URL follows the
    \* robots request of the same URL at once
    /\ \A j \in 1..Len(netlog) :
            /\ netlog[j][1] = "page" =>
                  (j > 1 /\ netlog[j - 1] = <<"robots", netlog[j][2]>>)
            /\ netlog[j][1] = "robots" =>
                  (j = 1 \/ netlog[j - 1][1] = "page"
                         \/ verdict[netlog[j - 1][2]] = "denied")
    \* a URL is written after the answer to its page request
    /\ \A u \in Range(written) :
            <<"page", u>> \in Range(netlog) \ inflight

C14_Steps ==
    \* the step that dequeues issues no request
    /\ (queue /= <<>> /\ queue' = Tail(queue)) => netlog' = netlog
    \* a request is issued for the URL of the current turn of the loop,
    \* which passed both tests and is in the visited set already
    /\ netlog' /= netlog =>
            /\ netlog'[Len(netlog')][2] = url
            /\ url \in visited_urls
            /\ ~(depth >= max_depth)
            /\ accepted[url] = <<depth>>
            /\ visited_urls' = visited_urls
    \* the page request follows the answer of robots that allowed the URL
    /\ (netlog' /= netlog /\ netlog'[Len(netlog')][1] = "page") =>
            /\ netlog[Len(netlog)] = <<"robots", url>>
            /\ verdict[url] = "allowed"
            /\ inflight = {}
    \* the URL is written when the links of its page are on the queue
    /\ written' /= written =>
            /\ written' = Append(written, url)
            /\ netlog[Len(netlog)] = <<"page", url>>
            /\ inflight = {}
            /\ \A l \in links :
                  [url |-> l, depth |-> depth + 1] \in Range(queue)
            /\ queue' = queue

\* C14: in a turn of the loop the visited test and the depth test come
\* before any request; the URL is in the visited set when its robots
\* request and when its page request are issued; the page request follows
\* the robots answer; and the URL is written after the links of its page
\* were put on the queue.
C14_IterationOrder == [](C14_Requests) /\ [][C14_Steps]_vars

\* A URL other than the seed was written after both its requests, with
\* the links of its page on the queue.
C14_Witness ==
    /\ pc = "loop"
    /\ url /= Seed
    /\ written /= <<>>
    /\ written[Len(written)] = url
    /\ links /= {}
    /\ \A l \in links : [url |-> l, depth |-> depth + 1] \in Range(queue)

(* C15 *)

C15_Steps ==
    \* the answer to a page request with a text puts one entry at the tail
    \* for each link of the page, at depth + 1, whatever the visited set,
    \* the queue and max_depth are
    /\ (pc = "fetch" /\ response' = "content") =>
            /\ Len(queue') = Len(queue) + Cardinality(links')
            /\ SubSeq(queue', 1, Len(queue)) = queue
            /\ \A l \in links' :
                  Cardinality({i \in (Len(queue) + 1)..Len(queue') :
                      queue'[i] = [url |-> l, depth |-> depth + 1]}) = 1
            /\ \A i \in (Len(queue) + 1)..Len(queue') :
                  queue'[i].url \in links' /\ queue'[i].depth = depth + 1
    \* no other step puts an entry on the queue
    /\ ~(pc = "fetch" /\ response' = "content") =>
            (queue' = queue \/ (queue /= <<>> /\ queue' = Tail(queue)))

\* C15: when the page fetch of a URL accepted at depth d returns a text,
\* one entry (link, d + 1) is appended to the tail of the queue for each
\* link of the page, also for a link that is in the visited set, that is
\* on the queue, or whose depth d + 1 is max_depth; no other step adds an
\* entry, so the queue holds the seed at depth 0 and such entries only.
C15_UnconditionalEnqueue ==
    /\ [](\A i \in 1..Len(queue) :
            queue[i] = [url |-> Seed, depth |-> 0] \/ queue[i].depth >= 1)
    /\ [][C15_Steps]_vars

\* The page of a URL accepted at depth max_depth - 1 had two links, one of
\* them in the visited set already, and both were put on the queue at depth
\* max_depth.
C15_Witness ==
    /\ pc = "write"
    /\ depth + 1 = max_depth
    /\ Cardinality(links) = 2
    /\ links \cap visited_urls /= {}
    /\ \A l \in links : [url |-> l, depth |-> max_depth] \in Range(queue)

\* The page had a link that was on the queue already, and the link was put
\* on the queue again.
C15_WitnessQueued ==
    /\ pc = "write"
    /\ \E i, j \in 1..Len(queue) : i < j /\ queue[i].url = queue[j].url
                                     /\ queue[j].url \in links

(* C16 *)

\* The URLs for which is_crawlable answered allowed.
Allowed == {u \in Urls : verdict[u] = "allowed"}

\* The URLs a reader of the format finds in the file.
SinkUrls(fmt, f) ==
    IF fmt = "json" THEN Range(JsonRead(f, "start", <<>>, <<>>).urls)
    ELSE Range(ReadBack(fmt, f).records)

\* C16: when crawl has returned the output filename, the URLs in the file
\* are the visited URLs that robots allowed, each once, and every visited
\* URL was allowed or refused; in every state a refused URL is in the
\* visited set and not in the file, and a completed session wrote the URLs
\* whose page fetch failed as well.
C16_SinkIsAllowedVisited ==
    /\ Completed =>
            /\ SinkUrls(format, file) = visited_urls \cap Allowed
            /\ Range(written) = visited_urls \cap Allowed
            /\ Len(written) = Cardinality(visited_urls \cap Allowed)
            /\ \A u \in visited_urls : verdict[u] \in {"allowed", "denied"}
            /\ \A u \in Urls : fetched[u] = "failed" => u \in Range(written)
    /\ \A u \in Urls : verdict[u] = "denied" =>
            (u \in visited_urls /\ u \notin Range(written))
    /\ Allowed \subseteq visited_urls

\* A completed session visited three URLs: one was refused by robots, the
\* page fetch of another failed, and the file holds two URLs.
C16_Witness ==
    /\ Completed
    /\ Cardinality(visited_urls) = 3
    /\ \E u \in Urls : verdict[u] = "denied"
    /\ \E u \in Urls : fetched[u] = "failed"
    /\ Len(written) = 2

(* C17 *)

\* The depth at which a written URL was accepted.
DepthOf(u) == accepted[u][1]

C17_Frontier ==
    /\ max_depth >= 0
    \* the depths do not decrease from the head to the tail
    /\ \A i, j \in 1..Len(queue) : i < j => queue[i].depth <= queue[j].depth
    \* the head and the tail differ by one at most
    /\ queue /= <<>> => queue[Len(queue)].depth - queue[1].depth <= 1
    \* every depth is in 0..max_depth
    /\ \A i \in 1..Len(queue) : queue[i].depth \in 0..max_depth
    \* during a turn of the loop the queue holds the depth of the turn and
    \* the next one
    /\ (url /= NoUrl /\ queue /= <<>>) =>
            (depth <= queue[1].depth /\ queue[Len(queue)].depth <= depth + 1)
    \* the URLs were written in the order of their depths
    /\ \A i, j \in 1..Len(written) :
            i < j => DepthOf(written[i]) <= DepthOf(written[j])

C17_Steps ==
    \* the entries are dequeued, and so accepted, in the order of their depths
    /\ depth' >= depth
    /\ \A u \in Urls : accepted'[u] /= accepted[u] =>
            \A v \in visited_urls : DepthOf(v) <= accepted'[u][1]

\* C17: in every state the depths of the entries on the queue do not
\* decrease from the head to the tail, the head and the tail differ by one
\* at most, and every depth is in 0..max_depth; so the URLs are accepted
\* and written in the order of their depths.
C17_BfsFrontier == [](C17_Frontier) /\ [][C17_Steps]_vars

\* The queue holds an entry of depth 1 before an entry of depth 2, and the
\* two URLs written so far were accepted at depths 0 and 1.
C17_Witness ==
    /\ Len(queue) = 2
    /\ queue[1].depth = 1
    /\ queue[2].depth = 2
    /\ Len(written) = 2
    /\ DepthOf(written[2]) = 1

(* C18 *)

C18_Shallowest ==
    \* a URL was accepted at the least depth of the entries put on the
    \* queue for it
    /\ \A u \in visited_urls : DepthOf(u) = enqueued[u]
    \* a URL with an entry of depth below max_depth that is not visited yet
    \* has its shallowest entry on the queue still
    /\ \A u \in Urls \ visited_urls :
            (enqueued[u] >= 0 /\ enqueued[u] < max_depth) =>
                [url |-> u, depth |-> enqueued[u]] \in Range(queue)
    \* and it is visited when the queue has drained
    /\ Completed =>
            \A u \in Urls :
                (enqueued[u] >= 0 /\ enqueued[u] < max_depth) =>
                    u \in visited_urls

C18_Steps ==
    \* the depth test discards entries of URLs all of whose entries have
    \* depth max_depth
    /\ (queue /= <<>> /\ queue' = Tail(queue)
            /\ Head(queue).url \notin visited_urls') =>
                enqueued[Head(queue).url] >= max_depth
    \* the least depth of a visited URL stays as it is
    /\ \A u \in visited_urls : enqueued'[u] = enqueued[u]

\* C18: a URL is accepted at the least depth of all the entries ever put
\* on the queue for it, and the depth test never discards an entry of a
\* URL that is not visited when an entry of it has a depth below max_depth.
C18_ShortestDepth == [](C18_Shallowest) /\ [][C18_Steps]_vars

\* A URL accepted at depth 1 was linked from a page of depth 1 too: an
\* entry of depth 2 for it is on the queue.
C18_Witness ==
    \E u \in visited_urls :
        /\ accepted[u] = <<1>>
        /\ [url |-> u, depth |-> 2] \in Range(queue)
        /\ max_depth = 2

(* C19 *)

\* The page of v was allowed by robots and fetched with a text, and the
\* text links to l.
Links(v, l) ==
    /\ verdict[v] = "allowed"
    /\ fetched[v] = "ok"
    /\ l \in linksOf[v]

RECURSIVE Reach(_)
\* The URLs that a chain of at most k links reaches from the seed, every
\* page of the chain before the last being allowed and fetched with a text.
Reach(k) ==
    IF k = 0 THEN {Seed}
    ELSE Reach(k - 1) \cup
         {l \in Urls : \E v \in Reach(k - 1) : Links(v, l)}

\* C19: when crawl has returned the output filename, every URL that a
\* chain of k < max_depth links reaches from the seed, through pages that
\* robots allowed and that were fetched with a text, is in the visited set,
\* and it is in the file when robots allows it.
C19_Complete ==
    (keep_graph /\ Completed) =>
        \A k \in 0..(max_depth - 1) : \A u \in Reach(k) :
            /\ u \in visited_urls
            /\ verdict[u] \in {"allowed", "denied"}
            /\ verdict[u] = "allowed" =>
                  (u \in Range(written) /\ u \in SinkUrls(format, file))

\* A completed session with max_depth 2: a page linked from the seed was
\* visited and written, and a URL that only a chain of two links reaches
\* was left unvisited.
C19_Witness ==
    /\ keep_graph
    /\ Completed
    /\ max_depth = 2
    /\ \E u \in Reach(1) \ {Seed} : u \in Range(written)
    /\ Reach(2) \ visited_urls /= {}

====
